---- MODULE Spec2Model ----
(***************************************************************************)
(* The adopters endpoints of the shelter API (api/adopters/adopters-router *)
(* .js) and the application assembly (api/server.js).                      *)
(*                                                                         *)
(* Every handler calls one operation of the ambient data-access object     *)
(* `Adopter`, which returns a promise, and chains .then(onFulfilled)       *)
(* .catch(onRejected) on it.  The data-access object is external: what its *)
(* promise settles with is an input of the model.  JavaScript values are   *)
(* records tagged with their type; the callbacks are operators that return *)
(* the effects they perform (console.log lines and writes on `res`) or the *)
(* error they throw.                                                       *)
(***************************************************************************)
EXTENDS Integers, Sequences, FiniteSets, Bags, TLC

VARIABLES
    inflight,   \* bag of handler invocations awaiting their deferred result
    settled,    \* the invocation whose promise chain ran last, "none" at start
    app,        \* what evaluating server.js came to: unloaded, failed, listening
    routed      \* the requests dispatched so far, each with the handler reached

vars == <<inflight, settled, app, routed>>

(***************************************************************************)
(* Bounds of the model.                                                    *)
(***************************************************************************)
\* Handler invocations that may await their deferred result at one time.
MaxInFlight == 2
\* Largest number the collaborator fulfils with (counts run from -1).
MaxCount == 1
\* Longest list the collaborator fulfils with.
MaxDogs == 1
\* Requests the dispatch of which is recorded.
MaxRouted == 2

(***************************************************************************)
(* JavaScript values.                                                      *)
(***************************************************************************)
JSNull == [t |-> "null"]
JSUndefined == [t |-> "undefined"]
JSBool(b) == [t |-> "boolean", b |-> b]
JSNumber(n) == [t |-> "number", n |-> n]
JSString(s) == [t |-> "string", s |-> s]
JSArray(items) == [t |-> "array", items |-> items]
\* A stored entity (an adopter or a dog row).
Entity(id) == [t |-> "object", id |-> id]
\* The object literal { message: '...' } the handlers answer with.
Message(s) == [t |-> "object", message |-> s]
\* The TypeError of reading a property of null or undefined.
TypeError == [t |-> "error", name |-> "TypeError"]

Strings == {"", "x"}
DogList(k) == JSArray([i \in 1..k |-> Entity(i)])

\* What a collaborator promise may fulfil with.
Values ==
    {JSNull, JSUndefined, JSBool(FALSE), JSBool(TRUE), Entity(1)}
        \cup {JSNumber(n) : n \in -1..MaxCount}
        \cup {JSString(s) : s \in Strings}
        \cup {DogList(k) : k \in 0..MaxDogs}

\* What a collaborator promise may reject with.
Errors == {[t |-> "error", name |-> "ECONNREFUSED"],
           [t |-> "error", name |-> "SQLITE_CONSTRAINT"]}

Outcomes ==
    {[kind |-> "fulfilled", value |-> v] : v \in Values}
        \cup {[kind |-> "rejected", error |-> e] : e \in Errors}

\* if (v): ToBoolean.
Truthy(v) ==
    CASE v.t = "null" -> FALSE
      [] v.t = "undefined" -> FALSE
      [] v.t = "boolean" -> v.b
      [] v.t = "number" -> v.n # 0
      [] v.t = "string" -> v.s # ""
      [] OTHER -> TRUE

NaN == [nan |-> TRUE]
Num(n) == [nan |-> FALSE, n |-> n]

\* The empty string converts to 0; the other string of Strings is no numeral.
StringToNumber(s) == IF s = "" THEN Num(0) ELSE NaN

\* ToNumber, as the relational operators apply it to an operand.
ToNumber(v) ==
    CASE v.t = "null" -> Num(0)
      [] v.t = "undefined" -> NaN
      [] v.t = "boolean" -> Num(IF v.b THEN 1 ELSE 0)
      [] v.t = "number" -> Num(v.n)
      [] v.t = "string" -> StringToNumber(v.s)
      [] v.t = "array" -> IF Len(v.items) = 0 THEN Num(0) ELSE NaN
      [] OTHER -> NaN

\* v > 0: false whenever an operand converts to NaN.
GreaterThanZero(v) ==
    LET n == ToNumber(v) IN ~n.nan /\ n.n > 0

\* v.length, for a v that is neither null nor undefined.
LengthOf(v) ==
    CASE v.t = "string" -> JSNumber(IF v.s = "" THEN 0 ELSE 1)
      [] v.t = "array" -> JSNumber(Len(v.items))
      [] OTHER -> JSUndefined

(***************************************************************************)
(* Effects of a callback and its completion.                               *)
(***************************************************************************)
Log(v) == [op |-> "log", arg |-> v]
Status(code) == [op |-> "status", code |-> code]
Json(body) == [op |-> "json", body |-> body]

Returned(effects) == [threw |-> FALSE, effects |-> effects]
Threw(error) == [threw |-> TRUE, error |-> error, effects |-> <<>>]

(***************************************************************************)
(* The six handlers: the collaborator call each makes, its fulfilment      *)
(* callback and its rejection callback.                                    *)
(***************************************************************************)
Handlers ==
    {"GET /api/adopters", "GET /api/adopters/:id", "GET /api/adopters/:id/dogs",
     "POST /api/adopters", "DELETE /api/adopters/:id", "PUT /api/adopters/:id"}

Ids == {"1", "missing-id"}
Queries == {"?", "?name=Ann"}
Bodies == {"{name: 'Ann'}", "{name: 'Bo'}"}

\* Mutant: the filter is dropped and every adopter is asked for.
GetAdoptersCallNoFilter(req) == [op |-> "find", args |-> <<"?">>]
GetAdoptersCall(req) == [op |-> "find", args |-> <<req.query>>]
GetAdoptersThen(adopters) == Returned(<<Status(200), Json(adopters)>>)
\* Mutant: the error itself is sent to the caller.
GetAdoptersCatchLeak(error) ==
    Returned(<<Log(error), Status(500), Json(error)>>)
GetAdoptersCatch(error) ==
    Returned(<<Log(error), Status(500),
               Json(Message("Error retrieving the adopters"))>>)

GetAdopterByIdCall(req) == [op |-> "findById", args |-> <<req.params.id>>]
\* Mutant: the lookup answers 200 whatever it found.
GetAdopterByIdThenNoCheck(adopter) == Returned(<<Status(200), Json(adopter)>>)
GetAdopterByIdThen(adopter) ==
    IF Truthy(adopter)
    THEN Returned(<<Status(200), Json(adopter)>>)
    ELSE Returned(<<Status(404), Json(Message("Adopter not found"))>>)
GetAdopterByIdCatch(error) ==
    Returned(<<Log(error), Status(500),
               Json(Message("Error retrieving the adopter"))>>)

GetAdopterDogsCall(req) == [op |-> "findDogs", args |-> <<req.params.id>>]
\* Mutant: an empty list is answered with 200 like any other.
GetAdopterDogsThenNoCheck(dogs) ==
    IF dogs.t \in {"null", "undefined"}
    THEN Threw(TypeError)
    ELSE Returned(<<Status(200), Json(dogs)>>)
GetAdopterDogsThen(dogs) ==
    IF dogs.t \in {"null", "undefined"}
    THEN Threw(TypeError)
    ELSE IF GreaterThanZero(LengthOf(dogs))
         THEN Returned(<<Status(200), Json(dogs)>>)
         ELSE Returned(<<Status(404), Json(Message("No dogs for this adopter"))>>)
GetAdopterDogsCatch(error) ==
    Returned(<<Log(error), Status(500),
               Json(Message("Error retrieving the dogs for this adopter"))>>)

PostAdopterCall(req) == [op |-> "add", args |-> <<req.body>>]
\* Mutant: creation answers 200 instead of 201.
PostAdopterThenOk(adopter) == Returned(<<Status(200), Json(adopter)>>)
PostAdopterThen(adopter) == Returned(<<Status(201), Json(adopter)>>)
PostAdopterCatch(error) ==
    Returned(<<Log(error), Status(500),
               Json(Message("Error adding the adopter"))>>)

DeleteAdopterCall(req) == [op |-> "remove", args |-> <<req.params.id>>]
\* Mutant: count >= 0 in place of count > 0.
DeleteAdopterThenGe(count) ==
    IF LET n == ToNumber(count) IN ~n.nan /\ n.n >= 0
    THEN Returned(<<Status(200), Json(Message("The adopter has been nuked"))>>)
    ELSE Returned(<<Status(404), Json(Message("The adopter could not be found"))>>)
DeleteAdopterThen(count) ==
    IF GreaterThanZero(count)
    THEN Returned(<<Status(200), Json(Message("The adopter has been nuked"))>>)
    ELSE Returned(<<Status(404), Json(Message("The adopter could not be found"))>>)
DeleteAdopterCatch(error) ==
    Returned(<<Log(error), Status(500),
               Json(Message("Error removing the adopter"))>>)

PutAdopterCall(req) == [op |-> "update", args |-> <<req.params.id, req.body>>]
\* Mutant: the branches of the update are swapped.
PutAdopterThenSwapped(adopter) ==
    IF Truthy(adopter)
    THEN Returned(<<Status(404), Json(Message("The adopter could not be found"))>>)
    ELSE Returned(<<Status(200), Json(adopter)>>)
PutAdopterThen(adopter) ==
    IF Truthy(adopter)
    THEN Returned(<<Status(200), Json(adopter)>>)
    ELSE Returned(<<Status(404), Json(Message("The adopter could not be found"))>>)
PutAdopterCatch(error) ==
    Returned(<<Log(error), Status(500),
               Json(Message("Error updating the adopter"))>>)

OnFulfilled(h, value) ==
    CASE h = "GET /api/adopters" -> GetAdoptersThen(value)
      [] h = "GET /api/adopters/:id" -> GetAdopterByIdThen(value)
      [] h = "GET /api/adopters/:id/dogs" -> GetAdopterDogsThen(value)
      [] h = "POST /api/adopters" -> PostAdopterThen(value)
      [] h = "DELETE /api/adopters/:id" -> DeleteAdopterThen(value)
      [] h = "PUT /api/adopters/:id" -> PutAdopterThen(value)

OnRejected(h, error) ==
    CASE h = "GET /api/adopters" -> GetAdoptersCatch(error)
      [] h = "GET /api/adopters/:id" -> GetAdopterByIdCatch(error)
      [] h = "GET /api/adopters/:id/dogs" -> GetAdopterDogsCatch(error)
      [] h = "POST /api/adopters" -> PostAdopterCatch(error)
      [] h = "DELETE /api/adopters/:id" -> DeleteAdopterCatch(error)
      [] h = "PUT /api/adopters/:id" -> PutAdopterCatch(error)

\* Mutant: .then(onFulfilled, onRejected), which leaves an error thrown by
\* onFulfilled unhandled.
ChainThenOnly(h, outcome) ==
    IF outcome.kind = "rejected"
    THEN OnRejected(h, outcome.error).effects
    ELSE OnFulfilled(h, outcome.value).effects

\* Mutant: the fulfilment value is kept in a variable of the module, shared by
\* all requests, and the callback answers with what the variable held before.
ChainShared(h, outcome) ==
    IF outcome.kind = "rejected"
    THEN OnRejected(h, outcome.error).effects
    ELSE LET stale == IF settled.handler # "none" /\ settled.outcome.kind = "fulfilled"
                      THEN settled.outcome.value
                      ELSE outcome.value
             r == OnFulfilled(h, stale)
         IN  IF r.threw
             THEN r.effects \o OnRejected(h, r.error).effects
             ELSE r.effects

\* promise.then(onFulfilled).catch(onRejected): a rejection skips onFulfilled;
\* an error onFulfilled throws rejects the derived promise and reaches
\* onRejected as well.  The result is the effects performed, in order.
Chain(h, outcome) ==
    IF outcome.kind = "rejected"
    THEN OnRejected(h, outcome.error).effects
    ELSE LET r == OnFulfilled(h, outcome.value)
         IN  IF r.threw
             THEN r.effects \o OnRejected(h, r.error).effects
             ELSE r.effects

(***************************************************************************)
(* The response a run of callbacks leaves on `res`.  res.status(code) sets *)
(* the status code (200 until set) and res.json(body) sends the response.  *)
(***************************************************************************)
JsonWrites(effects) == SelectSeq(effects, LAMBDA e : e.op = "json")
LogLines(effects) == SelectSeq(effects, LAMBDA e : e.op = "log")

\* How many responses the callbacks wrote.
Responses(effects) == Len(JsonWrites(effects))

FirstJson(effects) ==
    CHOOSE i \in 1..Len(effects) :
        /\ effects[i].op = "json"
        /\ \A j \in 1..(i - 1) : effects[j].op # "json"

StatusAt(effects, i) ==
    LET set == {j \in 1..(i - 1) : effects[j].op = "status"}
    IN  IF set = {}
        THEN 200
        ELSE effects[CHOOSE j \in set : \A k \in set : k <= j].code

\* The response sent, for effects that hold at least one res.json.
Response(effects) ==
    LET i == FirstJson(effects)
    IN  [status |-> StatusAt(effects, i), body |-> effects[i].body]

(***************************************************************************)
(* Initial state: no request has arrived and server.js is not evaluated.   *)
(***************************************************************************)
None == [handler |-> "none"]

Init ==
    /\ inflight = EmptyBag
    /\ settled = None
    /\ app = "unloaded"
    /\ routed = <<>>

\* The synchronous part of a handler calls the collaborator and returns,
\* leaving the request open until the promise settles.
CanAccept == BagCardinality(inflight) < MaxInFlight
Opened(h, req, call) ==
    inflight (+) SetToBag({[handler |-> h, req |-> req, call |-> call]})

GetAdopters ==
    /\ CanAccept
    /\ \E q \in Queries :
        LET req == [query |-> q]
        IN  inflight' = Opened("GET /api/adopters", req, GetAdoptersCall(req))
    /\ UNCHANGED <<settled, app, routed>>

GetAdopterById ==
    /\ CanAccept
    /\ \E id \in Ids :
        LET req == [params |-> [id |-> id]]
        IN  inflight' = Opened("GET /api/adopters/:id", req, GetAdopterByIdCall(req))
    /\ UNCHANGED <<settled, app, routed>>

GetAdopterDogs ==
    /\ CanAccept
    /\ \E id \in Ids :
        LET req == [params |-> [id |-> id]]
        IN  inflight' = Opened("GET /api/adopters/:id/dogs", req, GetAdopterDogsCall(req))
    /\ UNCHANGED <<settled, app, routed>>

PostAdopter ==
    /\ CanAccept
    /\ \E b \in Bodies :
        LET req == [body |-> b]
        IN  inflight' = Opened("POST /api/adopters", req, PostAdopterCall(req))
    /\ UNCHANGED <<settled, app, routed>>

DeleteAdopter ==
    /\ CanAccept
    /\ \E id \in Ids :
        LET req == [params |-> [id |-> id]]
        IN  inflight' = Opened("DELETE /api/adopters/:id", req, DeleteAdopterCall(req))
    /\ UNCHANGED <<settled, app, routed>>

PutAdopter ==
    /\ CanAccept
    /\ \E id \in Ids, b \in Bodies :
        LET req == [params |-> [id |-> id], body |-> b]
        IN  inflight' = Opened("PUT /api/adopters/:id", req, PutAdopterCall(req))
    /\ UNCHANGED <<settled, app, routed>>

\* The promise of one open invocation settles and its callbacks run to
\* completion; nothing makes a promise settle, so an invocation may stay open.
Settle ==
    \E r \in BagToSet(inflight), o \in Outcomes :
        /\ inflight' = inflight (-) SetToBag({r})
        /\ settled' = [handler |-> r.handler, req |-> r.req, call |-> r.call,
                       outcome |-> o, effects |-> Chain(r.handler, o)]
        /\ UNCHANGED <<app, routed>>

Next ==
    \/ GetAdopters
    \/ GetAdopterById
    \/ GetAdopterDogs
    \/ PostAdopter
    \/ DeleteAdopter
    \/ PutAdopter
    \/ Settle

Spec == Init /\ [][Next]_vars

(***************************************************************************)
(* Application assembly: what adopters-router.js registers and exports,    *)
(* and how server.js mounts it.  A path is its sequence of segments.       *)
(***************************************************************************)
Verbs == {"GET", "POST", "PUT", "DELETE"}
Urls ==
    {<<>>, <<"api", "adopters">>, <<"api", "adopters", "1">>,
     <<"api", "adopters", "1", "dogs">>, <<"api", "dogs">>}

\* The identifiers adopters-router.js declares or requires: it has no require,
\* no const and no express.Router() call.
AdoptersRouterDeclared == {}

\* The name under which adopters-router.js exports a router: module.exports is
\* never assigned.
AdoptersRouterExported == "none"

\* The registrations adopters-router.js makes: on which object, and the path
\* as written.
AdoptersRouterRegistrations ==
    {[on |-> "server", verb |-> "GET", path |-> <<"api", "adopters">>,
      handler |-> "GET /api/adopters"],
     [on |-> "server", verb |-> "GET", path |-> <<"api", "adopters", ":id">>,
      handler |-> "GET /api/adopters/:id"],
     [on |-> "server", verb |-> "GET", path |-> <<"api", "adopters", ":id", "dogs">>,
      handler |-> "GET /api/adopters/:id/dogs"],
     [on |-> "server", verb |-> "POST", path |-> <<"api", "adopters">>,
      handler |-> "POST /api/adopters"],
     [on |-> "server", verb |-> "DELETE", path |-> <<"api", "adopters", ":id">>,
      handler |-> "DELETE /api/adopters/:id"],
     [on |-> "server", verb |-> "PUT", path |-> <<"api", "adopters", ":id">>,
      handler |-> "PUT /api/adopters/:id"]}

\* require('./adopters/adopters-router'): evaluating a registration on an
\* identifier the file does not declare throws a ReferenceError; otherwise the
\* result is the routes of the exported object.
RequireAdoptersRouter ==
    IF \E r \in AdoptersRouterRegistrations : r.on \notin AdoptersRouterDeclared
    THEN [threw |-> TRUE]
    ELSE [threw |-> FALSE,
          routes |-> {r \in AdoptersRouterRegistrations :
                        r.on = AdoptersRouterExported}]

\* A route path matches segment by segment, ":id" matching any segment.
PathMatches(pattern, path) ==
    /\ Len(pattern) = Len(path)
    /\ \A i \in 1..Len(path) : pattern[i] = ":id" \/ pattern[i] = path[i]

HasPrefix(prefix, url) ==
    /\ Len(prefix) <= Len(url)
    /\ SubSeq(url, 1, Len(prefix)) = prefix

StripPrefix(prefix, url) == SubSeq(url, Len(prefix) + 1, Len(url))

\* The handler of a router that takes the request, "none" when no route does.
RouterTarget(routes, verb, path) ==
    LET hits == {r \in routes : r.verb = verb /\ PathMatches(r.path, path)}
    IN  IF hits = {} THEN "none" ELSE (CHOOSE r \in hits : TRUE).handler

\* server.js: the routers mounted at their prefixes, then GET /.
Route(verb, url) ==
    IF app # "listening"
    THEN "none"
    ELSE IF HasPrefix(<<"api", "adopters">>, url)
         THEN RouterTarget(RequireAdoptersRouter.routes, verb,
                           StripPrefix(<<"api", "adopters">>, url))
         ELSE IF HasPrefix(<<"api", "dogs">>, url)
              THEN "dogsRouter"
              ELSE IF verb = "GET" /\ url = <<>> THEN "welcome" ELSE "none"

\* server.js is evaluated, requiring the router modules first.
LoadServer ==
    /\ app = "unloaded"
    /\ app' = IF RequireAdoptersRouter.threw THEN "failed" ELSE "listening"
    /\ UNCHANGED <<inflight, settled, routed>>

\* A request is sent to the application.
Dispatch ==
    /\ app # "unloaded"
    /\ Len(routed) < MaxRouted
    /\ \E verb \in Verbs, url \in Urls :
        routed' = Append(routed, [verb |-> verb, url |-> url,
                                  target |-> Route(verb, url)])
    /\ UNCHANGED <<inflight, settled, app>>

NextRoute ==
    \/ LoadServer
    \/ Dispatch

SpecRoute == Init /\ [][NextRoute]_vars

(***************************************************************************)
(* Properties.                                                             *)
(***************************************************************************)
Done == settled.handler # "none"
Fulfilled == Done /\ settled.outcome.kind = "fulfilled"
Rejected == Done /\ settled.outcome.kind = "rejected"
Answered == Done /\ Responses(settled.effects) = 1
Res == Response(settled.effects)
InFlightRequest(r) ==
    [handler |-> r.handler, req |-> r.req, call |-> r.call]

C1_Missing ==
    /\ Fulfilled
    /\ \/ /\ settled.handler \in {"GET /api/adopters/:id", "PUT /api/adopters/:id"}
          /\ settled.outcome.value = JSNull
       \/ /\ settled.handler = "DELETE /api/adopters/:id"
          /\ settled.outcome.value = JSNumber(0)

\* C1 as stated: for an id that is not in the backing store (findById and
\* update fulfil with null, remove with 0), GET, PUT and DELETE of
\* /api/adopters/:id all answer 404 with the one message "Adopter not found".
C1_SameNotFoundMessage ==
    C1_Missing =>
        /\ Answered
        /\ Res = [status |-> 404, body |-> Message("Adopter not found")]

\* C1 as amended: for an id that is not in the backing store, GET, PUT and
\* DELETE of /api/adopters/:id all answer 404 with a {message} body; the
\* message is "Adopter not found" for GET and "The adopter could not be
\* found" for PUT and DELETE.
C1_NotFoundPerVerb ==
    C1_Missing =>
        /\ Answered
        /\ Res = [status |-> 404,
                  body |-> Message(IF settled.handler = "GET /api/adopters/:id"
                                   THEN "Adopter not found"
                                   ELSE "The adopter could not be found")]

C1_Witness ==
    /\ C1_Missing
    /\ settled.handler = "PUT /api/adopters/:id"
    /\ settled.req.params.id = "missing-id"
    /\ Res.status = 404

C2_FixedMessage(h) ==
    CASE h = "GET /api/adopters" -> "Error retrieving the adopters"
      [] h = "GET /api/adopters/:id" -> "Error retrieving the adopter"
      [] h = "GET /api/adopters/:id/dogs" -> "Error retrieving the dogs for this adopter"
      [] h = "POST /api/adopters" -> "Error adding the adopter"
      [] h = "DELETE /api/adopters/:id" -> "Error removing the adopter"
      [] h = "PUT /api/adopters/:id" -> "Error updating the adopter"

\* C2: when the collaborator's promise rejects, whatever the error, the
\* handler logs that error once, then answers 500 with the fixed message of
\* its endpoint and nothing of the error.
C2_RejectionLoggedThen500 ==
    Rejected =>
        /\ Len(LogLines(settled.effects)) = 1
        /\ settled.effects[1] = Log(settled.outcome.error)
        /\ Answered
        /\ FirstJson(settled.effects) > 1
        /\ Res = [status |-> 500,
                  body |-> Message(C2_FixedMessage(settled.handler))]

C2_Witness ==
    /\ Rejected
    /\ settled.handler = "GET /api/adopters"
    /\ settled.outcome.error.name = "ECONNREFUSED"
    /\ Res.body = Message("Error retrieving the adopters")

\* C3: once the promise has settled and the callbacks have run, exactly one
\* response is written, also when the fulfilment callback throws.
C3_ExactlyOneResponse == Done => Responses(settled.effects) = 1

C3_Witness ==
    /\ Fulfilled
    /\ settled.handler = "GET /api/adopters/:id/dogs"
    /\ settled.outcome.value = JSNull
    /\ OnFulfilled(settled.handler, settled.outcome.value).threw
    /\ Responses(settled.effects) = 1

C4_Handlers ==
    {"GET /api/adopters/:id", "GET /api/adopters/:id/dogs",
     "DELETE /api/adopters/:id", "PUT /api/adopters/:id"}
C4_Empty ==
    {JSNull, JSUndefined, JSNumber(0), JSBool(FALSE), JSString(""), JSArray(<<>>)}
C4_Case ==
    /\ Fulfilled
    /\ settled.handler \in C4_Handlers
    /\ settled.outcome.value \in C4_Empty

\* C4 as stated: findById, findDogs, remove or update fulfilling with null,
\* undefined, 0, false, "" or [] is answered 404.
C4_EmptyIs404 == C4_Case => Answered /\ Res.status = 404

\* C4 as amended: remove fulfilling with any of these values is answered 404;
\* findById and update are answered 404 for null, undefined, 0, false and ""
\* but 200 for the empty list, which is truthy; findDogs is answered 404 for
\* 0, false, "" and the empty list but 500 for null and undefined, whose
\* length cannot be read.
C4_EmptyByOperation ==
    C4_Case =>
        /\ Answered
        /\ Res.status =
            CASE settled.handler = "DELETE /api/adopters/:id" -> 404
              [] settled.handler = "GET /api/adopters/:id/dogs" ->
                    IF settled.outcome.value \in {JSNull, JSUndefined}
                    THEN 500 ELSE 404
              [] OTHER ->
                    IF settled.outcome.value = JSArray(<<>>) THEN 200 ELSE 404

C4_Witness ==
    /\ C4_Case
    /\ settled.handler = "GET /api/adopters/:id"
    /\ settled.outcome.value = JSString("")
    /\ Res.status = 404

C5_Case == Fulfilled /\ settled.handler = "DELETE /api/adopters/:id"
\* The counts that are greater than 0: a positive number, and true, which
\* compares as 1.
C5_Positive(v) == (v.t = "number" /\ v.n > 0) \/ v = JSBool(TRUE)

\* C5: DELETE answers 200 with the confirmation only for a count greater
\* than 0, 404 for a count that is 0 or falsy, and nothing but 200 or 404
\* for a fulfilled count.
C5_DeleteByCount ==
    C5_Case =>
        /\ Answered
        /\ Res.status \in {200, 404}
        /\ Res.status = 200 =>
              /\ C5_Positive(settled.outcome.value)
              /\ Res.body = Message("The adopter has been nuked")
        /\ settled.outcome.value.t = "number" =>
              (Res.status = 200 <=> settled.outcome.value.n > 0)
        /\ settled.outcome.value \in
              {JSNull, JSUndefined, JSNumber(0), JSBool(FALSE), JSString("")} =>
              Res.status = 404

C5_Witness ==
    /\ C5_Case
    /\ settled.outcome.value = JSNumber(1)
    /\ Res.status = 200

C6_IsDogs(r) ==
    /\ r.handler = "GET /api/adopters/:id/dogs"
    /\ r.outcome.kind = "fulfilled"
C6_ByLength ==
    /\ \A r \in BagToSet(inflight) :
          r.handler = "GET /api/adopters/:id/dogs" =>
              r.call = [op |-> "findDogs", args |-> <<r.req.params.id>>]
    /\ (Done /\ C6_IsDogs(settled) /\ settled.outcome.value.t = "array") =>
          /\ settled.call = [op |-> "findDogs", args |-> <<settled.req.params.id>>]
          /\ Answered
          /\ IF Len(settled.outcome.value.items) = 0
             THEN Res.status = 404
             ELSE Res = [status |-> 200, body |-> settled.outcome.value]
C6_Repeat ==
    (/\ Done
     /\ C6_IsDogs(settled)
     /\ C6_IsDogs(settled')
     /\ settled'.req = settled.req
     /\ settled'.outcome = settled.outcome) => settled'.effects = settled.effects

C7_ListPassThrough ==
    /\ \A r \in BagToSet(inflight) :
          r.handler = "GET /api/adopters" =>
              r.call = [op |-> "find", args |-> <<r.req.query>>]
    /\ (Done /\ settled.handler = "GET /api/adopters") =>
          /\ settled.call = [op |-> "find", args |-> <<settled.req.query>>]
          /\ Answered
          /\ Res.status # 404
          /\ Fulfilled => Res = [status |-> 200, body |-> settled.outcome.value]

C7_Witness ==
    /\ Fulfilled
    /\ settled.handler = "GET /api/adopters"
    /\ settled.req.query = "?name=Ann"
    /\ settled.outcome.value = JSArray(<<>>)
    /\ Res.status = 200

\* C8: POST /api/adopters hands req.body unchanged to add and answers a
\* fulfilment with 201 and the created entity; POST never answers 200 and no
\* other handler answers 201.
C8_PostCreated ==
    /\ \A r \in BagToSet(inflight) :
          r.handler = "POST /api/adopters" =>
              r.call = [op |-> "add", args |-> <<r.req.body>>]
    /\ (Done /\ settled.handler = "POST /api/adopters") =>
          /\ settled.call = [op |-> "add", args |-> <<settled.req.body>>]
          /\ Answered
          /\ Res.status # 200
          /\ Fulfilled => Res = [status |-> 201, body |-> settled.outcome.value]
    /\ (Done /\ settled.handler # "POST /api/adopters") =>
          Answered /\ Res.status # 201

C8_Witness ==
    /\ Fulfilled
    /\ settled.handler = "POST /api/adopters"
    /\ settled.req.body = "{name: 'Bo'}"
    /\ settled.outcome.value = Entity(1)
    /\ Res.status = 201

C9_Expected(verb, url) ==
    CASE url = <<>> /\ verb = "GET" -> "welcome"
      [] url = <<"api", "adopters">> /\ verb \in {"GET", "POST"} ->
            verb \o " /api/adopters"
      [] url = <<"api", "adopters", "1">> /\ verb \in {"GET", "PUT", "DELETE"} ->
            verb \o " /api/adopters/:id"
      [] url = <<"api", "adopters", "1", "dogs">> /\ verb = "GET" ->
            "GET /api/adopters/:id/dogs"
      [] OTHER -> "undocumented"

\* C9: every request to a documented URL reaches the matching adopters
\* handler, registered on the exported router under its prefix-relative
\* path, and GET / reaches the welcome handler.
C9_DocumentedRouting ==
    \A i \in 1..Len(routed) :
        C9_Expected(routed[i].verb, routed[i].url) # "undocumented" =>
            routed[i].target = C9_Expected(routed[i].verb, routed[i].url)

C10_Falsy == {JSNull, JSUndefined, JSNumber(0), JSBool(FALSE), JSString("")}
C10_Expected(h, o) ==
    IF o.kind = "rejected"
    THEN [status |-> 500, body |-> Message(C2_FixedMessage(h))]
    ELSE CASE h = "GET /api/adopters" -> [status |-> 200, body |-> o.value]
           [] h = "POST /api/adopters" -> [status |-> 201, body |-> o.value]
           [] h = "GET /api/adopters/:id" ->
                 IF o.value \in C10_Falsy
                 THEN [status |-> 404, body |-> Message("Adopter not found")]
                 ELSE [status |-> 200, body |-> o.value]
           [] h = "PUT /api/adopters/:id" ->
                 IF o.value \in C10_Falsy
                 THEN [status |-> 404,
                       body |-> Message("The adopter could not be found")]
                 ELSE [status |-> 200, body |-> o.value]
           [] h = "DELETE /api/adopters/:id" ->
                 IF C5_Positive(o.value)
                 THEN [status |-> 200, body |-> Message("The adopter has been nuked")]
                 ELSE [status |-> 404,
                       body |-> Message("The adopter could not be found")]
           [] h = "GET /api/adopters/:id/dogs" ->
                 IF o.value \in {JSNull, JSUndefined}
                 THEN [status |-> 500,
                       body |-> Message("Error retrieving the dogs for this adopter")]
                 ELSE IF o.value = JSString("x")
                         \/ (o.value.t = "array" /\ Len(o.value.items) > 0)
                      THEN [status |-> 200, body |-> o.value]
                      ELSE [status |-> 404,
                            body |-> Message("No dogs for this adopter")]
C10_OwnResponse ==
    Done => Answered /\ Res = C10_Expected(settled.handler, settled.outcome)
C10_NoInterference ==
    \/ settled' = settled /\ inflight \sqsubseteq inflight'
    \/ inflight = inflight' (+) SetToBag({InFlightRequest(settled')})

\* C10: whatever else is in flight, settled or never settling, and in
\* whatever order the promises settle, a request's response is the one its
\* own handler and its own collaborator outcome determine, and a step of one
\* request leaves every other open request as it was.
C10_HandlersIndependent == []C10_OwnResponse /\ [][C10_NoInterference]_vars

C10_Witness ==
    /\ Fulfilled
    /\ settled.handler = "PUT /api/adopters/:id"
    /\ Res.status = 200
    /\ \E r \in BagToSet(inflight) : r.handler = "DELETE /api/adopters/:id"
====
